---------------------------- MODULE Spec2Model ----------------------------
(***************************************************************************)
(* A model of package writefile (src/writefile.go): Config.EnsureDirectory, *)
(* Config.EnsureDirectoryIfNotExist and Config.WriteFile running as one or  *)
(* more callers over a shared POSIX file system.  Every system call the     *)
(* code issues is one atomic step of the caller that issues it.             *)
(*                                                                         *)
(* Strings are sequences of one-character strings, so that filepath.Clean,  *)
(* Join, Dir, Base and strings.HasPrefix are computed character by          *)
(* character as the library computes them.                                  *)
(***************************************************************************)
EXTENDS Integers, Sequences, FiniteSets, TLC

(***************************************************************************)
(* Strings and the path functions of path/filepath (Unix).                  *)
(***************************************************************************)
Empty == <<>>

Sep == "/"

HasPrefix(s, prefix) ==
    /\ Len(prefix) <= Len(s)
    /\ SubSeq(s, 1, Len(prefix)) = prefix

HasSuffix(s, suffix) ==
    /\ Len(suffix) <= Len(s)
    /\ SubSeq(s, Len(s) - Len(suffix) + 1, Len(s)) = suffix

\* index of the last separator of s, 0 when there is none
LastSep(s) ==
    LET idx == {i \in 1..Len(s) : s[i] = Sep}
    IN  IF idx = {} THEN 0 ELSE CHOOSE i \in idx : \A j \in idx : j <= i

\* index of the last "*" of s, 0 when there is none
LastStar(s) ==
    LET idx == {i \in 1..Len(s) : s[i] = "*"}
    IN  IF idx = {} THEN 0 ELSE CHOOSE i \in idx : \A j \in idx : j <= i

\* the elements of s between separators, empty elements included
RECURSIVE Split(_)
Split(s) ==
    LET i == LastSep(s)
    IN  IF i = 0 THEN <<s>>
        ELSE Append(Split(SubSeq(s, 1, i - 1)), SubSeq(s, i + 1, Len(s)))

RECURSIVE JoinElems(_)
JoinElems(elems) ==
    IF elems = <<>> THEN Empty
    ELSE IF Len(elems) = 1 THEN elems[1]
    ELSE elems[1] \o <<Sep>> \o JoinElems(Tail(elems))

DotDot == <<".", ".">>

Dot == <<".">>

\* the element stack of Clean: "" and "." are dropped, ".." removes the
\* element before it, is dropped at the root, and is kept in a relative path
RECURSIVE CleanElems(_, _, _)
CleanElems(elems, out, rooted) ==
    IF elems = <<>> THEN out
    ELSE LET e == Head(elems)
             rest == Tail(elems)
         IN  IF e = Empty \/ e = Dot THEN CleanElems(rest, out, rooted)
             ELSE IF e = DotDot
                  THEN IF out # <<>> /\ out[Len(out)] # DotDot
                       THEN CleanElems(rest, SubSeq(out, 1, Len(out) - 1), rooted)
                       ELSE IF rooted THEN CleanElems(rest, out, rooted)
                       ELSE CleanElems(rest, Append(out, e), rooted)
                  ELSE CleanElems(rest, Append(out, e), rooted)

IsAbs(path) == HasPrefix(path, <<Sep>>)

Clean(path) ==
    LET Out(rooted, body) ==
            IF rooted THEN <<Sep>> \o body
            ELSE IF body = Empty THEN Dot ELSE body
    IN  IF path = Empty THEN Dot
        ELSE Out(IsAbs(path), JoinElems(CleanElems(Split(path), <<>>, IsAbs(path))))

\* filepath.Join and path.Join of two elements
Join(a, b) ==
    IF a = Empty /\ b = Empty THEN Empty
    ELSE IF a = Empty THEN Clean(b)
    ELSE Clean(a \o <<Sep>> \o b)

\* filepath.Dir: all but the last element, cleaned
Dir(path) == Clean(SubSeq(path, 1, LastSep(path)))

RECURSIVE StripTrailingSeps(_)
StripTrailingSeps(s) ==
    IF Len(s) > 0 /\ s[Len(s)] = Sep
    THEN StripTrailingSeps(SubSeq(s, 1, Len(s) - 1))
    ELSE s

\* filepath.Base: the last element
Base(path) ==
    LET Last(s) == SubSeq(s, LastSep(s) + 1, Len(s))
        Out(t) == IF t = Empty THEN <<Sep>> ELSE t
    IN  IF path = Empty THEN Dot ELSE Out(Last(StripTrailingSeps(path)))


(***************************************************************************)
(* Permission bits.  A mode is the integer of its nine permission bits.     *)
(***************************************************************************)
Oct(a, b, c) == a * 64 + b * 8 + c

RECURSIVE BitAnd(_, _)
BitAnd(x, y) ==
    IF x = 0 \/ y = 0 THEN 0
    ELSE (x % 2) * (y % 2) + 2 * BitAnd(x \div 2, y \div 2)

RECURSIVE BitOr(_, _)
BitOr(x, y) ==
    IF x = 0 THEN y
    ELSE IF y = 0 THEN x
    ELSE (IF x % 2 = 1 \/ y % 2 = 1 THEN 1 ELSE 0) + 2 * BitOr(x \div 2, y \div 2)

DefaultDirectoryMode == 493

DefaultFileMode == 420

DefaultTempPattern == <<".", "t", "e", "m", "p", "*", "~">>

\* os.ModeDir, the directory bit of os.FileMode, placed above the permission
\* bits (bit 31 in Go; any bit outside the permission bits compares alike)
ModeDir == 2 ^ 12

(***************************************************************************)
(* The file system: a function from the clean absolute path of each         *)
(* existing entry to the entry.  A regular file carries the identity it got *)
(* when it was created (id) and its bytes (data); a rename moves both.      *)
(***************************************************************************)
Root == <<Sep>>

\* the process's umask, and the owner new entries get (the caller's ids)
Umask == Oct(0, 2, 2)

Cred == [uid |-> 0, gid |-> 0]

\* no file: the nil *os.File, and the id of an entry that is a directory
NoFile == <<>>

DirEntry(mode, uid, gid) ==
    [kind |-> "dir", mode |-> mode, uid |-> uid, gid |-> gid, id |-> <<>>, data |-> <<>>]

FileEntry(mode, uid, gid, id, data) ==
    [kind |-> "file", mode |-> mode, uid |-> uid, gid |-> gid, id |-> id, data |-> data]

Exists(fsys, node) == node \in DOMAIN fsys

IsDirNode(fsys, node) == Exists(fsys, node) /\ fsys[node].kind = "dir"

Put(fsys, node, entry) ==
    [n \in DOMAIN fsys \cup {node} |-> IF n = node THEN entry ELSE fsys[n]]

Drop(fsys, node) == [n \in DOMAIN fsys \ {node} |-> fsys[n]]

HasChildren(fsys, node) ==
    \E n \in DOMAIN fsys : n # node /\ Dir(n) = node

\* the kernel's walk of the elements of an absolute path, from node cur:
\* every element is looked up in a directory that exists
RECURSIVE WalkFrom(_, _, _)
WalkFrom(fsys, cur, elems) ==
    IF elems = <<>> THEN [err |-> "nil", node |-> cur]
    ELSE IF ~Exists(fsys, cur) THEN [err |-> "ENOENT", node |-> cur]
    ELSE IF ~IsDirNode(fsys, cur) THEN [err |-> "ENOTDIR", node |-> cur]
    ELSE LET e == Head(elems)
         IN  IF e = Empty \/ e = Dot THEN WalkFrom(fsys, cur, Tail(elems))
             ELSE IF e = DotDot THEN WalkFrom(fsys, Dir(cur), Tail(elems))
             ELSE WalkFrom(fsys, Join(cur, e), Tail(elems))

\* the node an existing path names
Lookup(fsys, path) ==
    LET Found(w) ==
            IF w.err # "nil" THEN w
            ELSE IF ~Exists(fsys, w.node) THEN [err |-> "ENOENT", node |-> w.node]
            ELSE w
    IN  Found(WalkFrom(fsys, Root, Split(path)))

\* the node a path names whose last element may be missing (mkdir, open with
\* O_CREAT, rename's target): its parent must exist and be a directory
LookupParent(fsys, path) ==
    LET Found(w, leaf) ==
            IF w.err # "nil" THEN w
            ELSE IF ~Exists(fsys, w.node) THEN [err |-> "ENOENT", node |-> w.node]
            ELSE IF ~IsDirNode(fsys, w.node) THEN [err |-> "ENOTDIR", node |-> w.node]
            ELSE IF leaf = Dot THEN [err |-> "nil", node |-> w.node]
            ELSE IF leaf = DotDot THEN [err |-> "nil", node |-> Dir(w.node)]
            ELSE [err |-> "nil", node |-> Join(w.node, leaf)]
        Of(s) ==
            IF s = Empty THEN [err |-> "nil", node |-> Root]
            ELSE Found(WalkFrom(fsys, Root, Split(SubSeq(s, 1, LastSep(s)))),
                       SubSeq(s, LastSep(s) + 1, Len(s)))
    IN  Of(StripTrailingSeps(path))

NoInfo == [mode |-> 0, uid |-> 0, gid |-> 0]

\* os.FileInfo of an entry: Mode() with the directory bit, and Sys()'s ids
InfoOf(entry) ==
    [mode |-> IF entry.kind = "dir" THEN BitOr(entry.mode, ModeDir) ELSE entry.mode,
     uid |-> entry.uid, gid |-> entry.gid]

\* os.Stat
SysStat(fsys, path) ==
    LET Of(w) ==
            IF w.err # "nil" THEN [err |-> w.err, info |-> NoInfo]
            ELSE [err |-> "nil", info |-> InfoOf(fsys[w.node])]
    IN  Of(Lookup(fsys, path))

\* os.Mkdir: the permission bits are masked by the umask
SysMkdir(fsys, path, mode) ==
    LET At(w) ==
            IF w.err # "nil" THEN [err |-> w.err, fs |-> fsys]
            ELSE IF Exists(fsys, w.node) THEN [err |-> "EEXIST", fs |-> fsys]
            ELSE [err |-> "nil",
                  fs |-> Put(fsys, w.node,
                             DirEntry(BitAnd(mode, Oct(7, 7, 7) - Umask),
                                      Cred.uid, Cred.gid))]
    IN  At(LookupParent(fsys, path))

\* os.Chmod
SysChmod(fsys, path, mode) ==
    LET At(w) ==
            IF w.err # "nil" THEN [err |-> w.err, fs |-> fsys]
            ELSE [err |-> "nil", fs |-> [fsys EXCEPT ![w.node].mode = mode]]
    IN  At(Lookup(fsys, path))

\* os.Chown
SysChown(fsys, path, uid, gid) ==
    LET At(w) ==
            IF w.err # "nil" THEN [err |-> w.err, fs |-> fsys]
            ELSE [err |-> "nil",
                  fs |-> [fsys EXCEPT ![w.node].uid = uid, ![w.node].gid = gid]]
    IN  At(Lookup(fsys, path))

\* open(path, O_RDWR|O_CREATE|O_EXCL, 0600), as ioutil.TempFile opens
SysCreateExcl(fsys, path, id) ==
    LET At(w) ==
            IF w.err # "nil" THEN [err |-> w.err, fs |-> fsys, f |-> NoFile]
            ELSE IF Exists(fsys, w.node) THEN [err |-> "EEXIST", fs |-> fsys, f |-> NoFile]
            ELSE [err |-> "nil", f |-> id,
                  fs |-> Put(fsys, w.node,
                             FileEntry(BitAnd(Oct(6, 0, 0), Oct(7, 7, 7) - Umask),
                                       Cred.uid, Cred.gid, id, <<>>))]
    IN  At(LookupParent(fsys, path))

\* os.Rename of a regular file: the entry moves, replacing a regular file at
\* the new name
SysRename(fsys, old, new) ==
    LET At(o, n) ==
            IF o.err # "nil" THEN [err |-> o.err, fs |-> fsys]
            ELSE IF n.err # "nil" THEN [err |-> n.err, fs |-> fsys]
            ELSE IF o.node = n.node THEN [err |-> "nil", fs |-> fsys]
            ELSE IF IsDirNode(fsys, n.node) /\ ~IsDirNode(fsys, o.node)
                 THEN [err |-> "EISDIR", fs |-> fsys]
            ELSE IF IsDirNode(fsys, o.node) THEN [err |-> "EINVAL", fs |-> fsys]
            ELSE [err |-> "nil", fs |-> Put(Drop(fsys, o.node), n.node, fsys[o.node])]
    IN  At(Lookup(fsys, old), LookupParent(fsys, new))

\* os.Remove: unlink, or rmdir of an empty directory
SysRemove(fsys, path) ==
    LET At(w) ==
            IF w.err # "nil" THEN [err |-> w.err, fs |-> fsys]
            ELSE IF HasChildren(fsys, w.node) \/ w.node = Root
                 THEN [err |-> "ENOTEMPTY", fs |-> fsys]
            ELSE [err |-> "nil", fs |-> Drop(fsys, w.node)]
    IN  At(Lookup(fsys, path))

\* the nodes that hold the file an open handle refers to
NodesOf(fsys, id) == {n \in DOMAIN fsys : fsys[n].kind = "file" /\ fsys[n].id = id}

\* (*os.File).Stat: fstat of the open file
SysFstat(fsys, id) ==
    LET Of(nodes) ==
            IF nodes = {} THEN [err |-> "nil", info |-> NoInfo]
            ELSE [err |-> "nil", info |-> InfoOf(fsys[CHOOSE n \in nodes : TRUE])]
    IN  Of(NodesOf(fsys, id))

\* (*os.File).Write of one chunk: the bytes go to the file, whatever its name
SysWrite(fsys, id, chunk) ==
    LET To(nodes) ==
            [n \in DOMAIN fsys |->
                IF n \in nodes THEN [fsys[n] EXCEPT !.data = Append(@, chunk)]
                ELSE fsys[n]]
    IN  To(NodesOf(fsys, id))

\* os.IsNotExist and os.IsExist
IsNotExist(err) == err = "ENOENT"

IsExist(err) == err = "EEXIST"

(***************************************************************************)
(* Bounds and inputs.                                                       *)
(***************************************************************************)
\* times a caller calls again, with the same arguments, after a call returned
MaxRepeats == 1

\* system calls that fail for a reason outside the model (I/O error, ...)
MaxFaults == 1

\* chunks a write callback writes before it returns success
PayloadLen == 2

\* random strings ioutil.TempFile draws from
NumRand == 2

Procs == {1, 2}

Digits == <<"1", "2", "3", "4", "5">>

Rand == {<<Digits[i]>> : i \in 1..NumRand}

\* the configurations callers use (Directory is set by each call): the zero
\* Config; one with its own modes, owner and pattern; one that asks for the
\* owner and file mode new entries have anyway; one that names an owner and
\* does not ask for it.  The ids are not negative, so uint32(id) is id.
ZeroConfig ==
    [Directory |-> Empty, DirectoryMode |-> 0, DirectoryUID |-> 0, DirectoryGID |-> 0,
     EnsureDirectoryOwnership |-> FALSE, FileMode |-> 0, FileUID |-> 0, FileGID |-> 0,
     EnsureFileOwnership |-> FALSE, TempPattern |-> Empty]

OwnConfig ==
    [Directory |-> Empty, DirectoryMode |-> Oct(7, 7, 0), DirectoryUID |-> 1,
     DirectoryGID |-> 1, EnsureDirectoryOwnership |-> TRUE, FileMode |-> Oct(6, 4, 0),
     FileUID |-> 1, FileGID |-> 1, EnsureFileOwnership |-> TRUE,
     TempPattern |-> <<"t", "*">>]

SameConfig ==
    [Directory |-> Empty, DirectoryMode |-> Oct(7, 5, 0), DirectoryUID |-> Cred.uid,
     DirectoryGID |-> Cred.gid, EnsureDirectoryOwnership |-> TRUE,
     FileMode |-> Oct(6, 0, 0), FileUID |-> Cred.uid, FileGID |-> Cred.gid,
     EnsureFileOwnership |-> TRUE, TempPattern |-> Empty]

UnownedConfig ==
    [ZeroConfig EXCEPT !.DirectoryUID = 1, !.DirectoryGID = 1,
                       !.FileUID = 1, !.FileGID = 1]

Configs == {ZeroConfig, OwnConfig, SameConfig, UnownedConfig}

\* what concurrent callers pass
ConcConfigs == {OwnConfig}

PathA == <<"/", "a">>

PathAF == <<"/", "a", "f">>

PathBC == <<"/", "b", "/", "c">>

\* the Directory values callers pass
Directories ==
    { Empty, <<"a">>, Root, PathA, PathA \o <<Sep>>, PathAF, PathBC }

ConcDirectories == {PathA, PathBC}

\* the names callers pass to WriteFile
Names ==
    { <<"f">>, <<"c", "/", "f">>, <<"/", "f">>, <<".", ".", "/", "f">>,
      <<".", ".", "/", "a", "b", "/", "f">>, <<"c", "/", ".", ".", "/", "f">> }

ConcNames == {<<"f">>}

\* the bytes of a file that was there before any call
OldData == <<<<0, 0>>>>


\* the file system before any call: /a is a directory of another owner and
\* mode, /a/f a regular file
InitFS ==
    Put(Put(Put(<<>>, Root, DirEntry(Oct(7, 5, 5), 0, 0)),
            PathA, DirEntry(Oct(7, 0, 0), 2, 2)),
        PathAF, FileEntry(Oct(6, 4, 4), 0, 0, <<0, 0>>, OldData))

(***************************************************************************)
(* Config's getters.                                                        *)
(***************************************************************************)
getTempPattern(c) ==
    IF c.TempPattern # Empty THEN c.TempPattern ELSE DefaultTempPattern

getFileMode(c) ==
    IF c.FileMode # 0 THEN c.FileMode ELSE DefaultFileMode

getDirectoryMode(c) ==
    IF c.DirectoryMode # 0 THEN c.DirectoryMode ELSE DefaultDirectoryMode

\* error values: a kind, and for InvalidName the name it carries
Err(kind) == [kind |-> kind, name |-> Empty]

Nil == Err("nil")

InvalidName(name) == [kind |-> "InvalidName", name |-> name]

\* the name ioutil.TempFile tries for random string r: the pattern's last
\* "*" is replaced by r, or r is appended when there is none
TempName(dir, pattern, r) ==
    LET Name(pos) ==
            IF pos = 0 THEN pattern \o r
            ELSE SubSeq(pattern, 1, pos - 1) \o r
                    \o SubSeq(pattern, pos + 1, Len(pattern))
    IN  Join(dir, Name(LastStar(pattern)))

\* the check of the configured directory that opens every operation:
\* the panic message, or "" when the directory passes
DirectoryPanic(c) ==
    IF c.Directory = Empty THEN "writefile: Directory must not be \"\""
    ELSE IF ~IsAbs(c.Directory) THEN "writefile: Directory must be absolute"
    ELSE ""

\* the validation with line 170's prefix test made without the separator:
\* a sibling directory whose name starts like the configured one passes
RECURSIVE ValidateBarePrefix(_, _)
ValidateBarePrefix(c, name) ==
    LET Under(fullPath, dir) ==
            IF dir # c.Directory
            THEN IF ~HasPrefix(dir, c.Directory)
                 THEN [kind |-> "error", err |-> InvalidName(name)]
                 ELSE ValidateBarePrefix([c EXCEPT !.Directory = dir], Base(fullPath))
            ELSE [kind |-> "ok", c |-> c, name |-> name]
        Checked(msg) ==
            IF msg # "" THEN [kind |-> "panic", msg |-> msg]
            ELSE IF IsAbs(name) THEN [kind |-> "error", err |-> InvalidName(name)]
            ELSE Under(Join(c.Directory, name), Dir(Join(c.Directory, name)))
    IN  Checked(DirectoryPanic(c))

\* the validation with the name test of lines 164-166 put before the
\* directory tests of lines 158-163
RECURSIVE ValidateNameFirst(_, _)
ValidateNameFirst(c, name) ==
    LET Under(fullPath, dir) ==
            IF dir # c.Directory
            THEN IF ~HasPrefix(dir, c.Directory \o <<Sep>>)
                 THEN [kind |-> "error", err |-> InvalidName(name)]
                 ELSE ValidateNameFirst([c EXCEPT !.Directory = dir], Base(fullPath))
            ELSE [kind |-> "ok", c |-> c, name |-> name]
        Checked(msg) ==
            IF IsAbs(name) THEN [kind |-> "error", err |-> InvalidName(name)]
            ELSE IF msg # "" THEN [kind |-> "panic", msg |-> msg]
            ELSE Under(Join(c.Directory, name), Dir(Join(c.Directory, name)))
    IN  Checked(DirectoryPanic(c))

\* WriteFile's validation of (c, name), lines 157-177: a panic, an
\* InvalidName error, or the configuration and name the temp-file protocol
\* runs with, after the recursion into the name's parent directory
RECURSIVE Validate(_, _)
Validate(c, name) ==
    LET Under(fullPath, dir) ==
            IF dir # c.Directory
            THEN IF ~HasPrefix(dir, c.Directory \o <<Sep>>)
                 THEN [kind |-> "error", err |-> InvalidName(name)]
                 ELSE Validate([c EXCEPT !.Directory = dir], Base(fullPath))
            ELSE [kind |-> "ok", c |-> c, name |-> name]
        Checked(msg) ==
            IF msg # "" THEN [kind |-> "panic", msg |-> msg]
            ELSE IF IsAbs(name) THEN [kind |-> "error", err |-> InvalidName(name)]
            ELSE Under(Join(c.Directory, name), Dir(Join(c.Directory, name)))
    IN  Checked(DirectoryPanic(c))

(***************************************************************************)
(* State.                                                                   *)
(*   fs      the file system                                                *)
(*   proc    per caller: the operation it runs (op), its configuration (c)  *)
(*           and name, its place in the code (pc), WriteFile's locals f,    *)
(*           tmpName, info, err and closeErr, the frames of the             *)
(*           EnsureDirectoryIfNotExist recursion (stack), and what the      *)
(*           properties need to remember of the call: the chunks its        *)
(*           callback wrote, the identity and the name of the temp file it  *)
(*           made, the system calls that changed the file system (log),     *)
(*           whether a mkdir reported "exists", the panic, and how the      *)
(*           call before it ended                                           *)
(*   faults  system calls that may still fail for an outside reason         *)
(***************************************************************************)
VARIABLES fs, proc, faults

vars == <<fs, proc, faults>>

NoCall == [op |-> "none", c |-> ZeroConfig, ok |-> FALSE]

IdleProc ==
    [pc |-> "idle", op |-> "none", c |-> ZeroConfig, name |-> Empty,
     arg |-> [Directory |-> Empty, name |-> Empty],
     f |-> NoFile, open |-> FALSE, tmpName |-> Empty, info |-> NoInfo,
     err |-> Nil, closeErr |-> Nil, stack |-> <<>>, wrote |-> 0,
     id |-> NoFile, made |-> Empty, log |-> {}, eexist |-> FALSE, panic |-> "",
     reps |-> 0, prev |-> NoCall, attempts |-> <<>>]

Init ==
    /\ fs = InitFS
    /\ proc = [p \in Procs |-> IdleProc]
    /\ faults = MaxFaults

\* caller p starts a call: the locals are fresh, the call before it is
\* remembered, and the file this call creates has an identity of its own
Begin(p, op, c, name) ==
    LET pr == proc[p]
        reps == IF pr.pc = "idle" THEN 0 ELSE pr.reps + 1
    IN  [IdleProc EXCEPT !.op = op, !.c = c, !.name = name,
                         !.arg = [Directory |-> c.Directory, name |-> name],
                         !.id = <<p, reps>>, !.reps = reps,
                         !.prev = [op |-> pr.op, c |-> pr.c,
                                   ok |-> pr.pc = "done" /\ pr.err = Nil]]

Logged(pr, sys, path) == [pr EXCEPT !.log = @ \cup {<<sys, path>>}]

Panic(pr, msg) == [pr EXCEPT !.pc = "panicked", !.panic = msg, !.stack = <<>>]

\* the calls of lines 199-205 a WriteFile has made so far, each with the
\* error it returned
Attempted(pr, call, e) ==
    [pr EXCEPT !.attempts = Append(@, [call |-> call, err |-> e])]

\* EnsureDirectory and EnsureDirectoryIfNotExist return e to the caller
Done(pr, e) == [pr EXCEPT !.pc = "done", !.err = e, !.stack = <<>>]

\* WriteFile returning with a deferred function that lacks lines 187-189: the
\* handle is closed, a temp file whose handle is closed already is left
WFReturnCloseOnly(pr, e) ==
    LET r == [pr EXCEPT !.err = e, !.stack = <<>>]
    IN  IF r.f # NoFile THEN [r EXCEPT !.pc = "defer_close"]
        ELSE [r EXCEPT !.pc = "done"]

\* WriteFile returns e: the deferred function of lines 182-196 runs first
WFReturn(pr, e) ==
    LET r == [pr EXCEPT !.err = e, !.stack = <<>>]
    IN  IF r.f # NoFile THEN [r EXCEPT !.pc = "defer_close"]
        ELSE IF r.tmpName # Empty THEN [r EXCEPT !.pc = "defer_remove"]
        ELSE [r EXCEPT !.pc = "done"]

\* an invocation of EnsureDirectoryIfNotExist has returned e to its caller:
\* the frame on top of the stack (line 110), or the operation (lines 60, 201)
RECURSIVE Returned(_, _)
Returned(pr, e) ==
    IF pr.stack # <<>>
    THEN IF e # Nil
         THEN Returned([pr EXCEPT !.stack = SubSeq(@, 1, Len(@) - 1)], e)
         ELSE [pr EXCEPT !.stack[Len(pr.stack)].pc = "mkdir"]
    ELSE IF pr.op = "WriteFile"
         THEN IF e # Nil
              THEN WFReturn(Attempted(pr, "EnsureDirectoryIfNotExist", e), e)
              ELSE [Attempted(pr, "EnsureDirectoryIfNotExist", e)
                       EXCEPT !.pc = "wf_temp2"]
    ELSE IF pr.op = "EnsureDirectory"
         THEN IF e # Nil THEN Done(pr, e) ELSE [pr EXCEPT !.pc = "ed_stat2"]
    ELSE Done(pr, e)

\* the invocation on top of the stack returns e
FrameReturn(pr, e) ==
    Returned([pr EXCEPT !.stack = SubSeq(@, 1, Len(@) - 1)], e)

\* EnsureDirectoryIfNotExist is invoked for directory dir, lines 94-104
EnterEDINE(pr, dir) ==
    LET Checked(msg) ==
            IF msg # "" THEN Panic(pr, msg)
            ELSE IF dir = Root THEN Returned([pr EXCEPT !.pc = "edine"], Nil)
            ELSE [pr EXCEPT !.pc = "edine",
                            !.stack = Append(@, [Directory |-> dir, pc |-> "stat"])]
    IN  Checked(DirectoryPanic([pr.c EXCEPT !.Directory = dir]))

\* parentConfig without the filepath.Dir of line 150: the "parent" is the
\* directory itself
parentConfigNoDir(c) ==
    LET Checked(msg, parent) ==
            IF msg # "" THEN [panic |-> msg, c |-> c]
            ELSE IF parent = c.Directory THEN [panic |-> "wtf", c |-> c]
            ELSE [panic |-> "", c |-> [c EXCEPT !.Directory = parent]]
    IN  Checked(DirectoryPanic(c), c.Directory)

\* parentConfig, lines 141-155: the parent directory, or the panic
parentConfig(c) ==
    LET Checked(msg, parent) ==
            IF msg # "" THEN [panic |-> msg, c |-> c]
            ELSE IF parent = c.Directory THEN [panic |-> "wtf", c |-> c]
            ELSE [panic |-> "", c |-> [c EXCEPT !.Directory = parent]]
    IN  Checked(DirectoryPanic(c), Dir(c.Directory))

OwnerDiffers(info, uid, gid) == info.uid # uid \/ info.gid # gid

\* the configuration a call was made with
ArgConfig(pr) == [pr.c EXCEPT !.Directory = pr.arg.Directory]

\* a caller calls again what it called before
CanRepeat(p, op) ==
    /\ proc[p].pc = "done"
    /\ proc[p].op = op
    /\ proc[p].reps < MaxRepeats

\* a system call fails for an outside reason only while the budget lasts
Faulty(fault) ==
    /\ fault => faults > 0
    /\ faults' = IF fault THEN faults - 1 ELSE faults

Top(pr) == pr.stack[Len(pr.stack)]

(***************************************************************************)
(* Config.EnsureDirectoryIfNotExist, lines 94-139.                          *)
(***************************************************************************)
StartEnsureDirectoryIfNotExist(p, c) ==
    /\ proc' = [proc EXCEPT ![p] =
          EnterEDINE(Begin(p, "EnsureDirectoryIfNotExist", c, Empty), c.Directory)]
    /\ UNCHANGED <<fs, faults>>

CallEnsureDirectoryIfNotExist(p, CS, DS) ==
    /\ proc[p].pc = "idle"
    /\ \E c0 \in CS, d \in DS :
          StartEnsureDirectoryIfNotExist(p, [c0 EXCEPT !.Directory = d])

RepeatEnsureDirectoryIfNotExist(p) ==
    /\ CanRepeat(p, "EnsureDirectoryIfNotExist")
    /\ StartEnsureDirectoryIfNotExist(p, ArgConfig(proc[p]))

\* what a system call reports when it fails for an outside reason
Failed == [err |-> "EIO", fs |-> fs, info |-> NoInfo, name |-> Empty, f |-> NoFile]

\* line 106 going on to the ownership of lines 121-136 when the directory
\* exists, where the code returns
EDINEStatEnsuring(p) ==
    LET pr == proc[p]
        After(st, par) ==
            proc' = [proc EXCEPT ![p] =
               IF st.err = "nil"
               THEN IF pr.c.EnsureDirectoryOwnership
                    THEN [pr EXCEPT !.stack[Len(pr.stack)].pc = "ostat"]
                    ELSE FrameReturn(pr, Nil)
               ELSE IF ~IsNotExist(st.err) THEN FrameReturn(pr, Err(st.err))
               ELSE IF par.panic # "" THEN Panic(pr, par.panic)
               ELSE EnterEDINE([pr EXCEPT !.stack[Len(pr.stack)].pc = "wait"],
                               par.c.Directory)]
    IN  /\ pr.pc = "edine"
        /\ Top(pr).pc = "stat"
        /\ \E fault \in BOOLEAN :
              /\ Faulty(fault)
              /\ After(IF fault THEN Failed ELSE SysStat(fs, Top(pr).Directory),
                       parentConfig([pr.c EXCEPT !.Directory = Top(pr).Directory]))
        /\ UNCHANGED fs

\* line 106: os.Stat of the directory; it exists, or the stat failed, or
\* (lines 110, 141-155) the parent directory is ensured first
EDINEStat(p) ==
    LET pr == proc[p]
        After(st, par) ==
            proc' = [proc EXCEPT ![p] =
               IF st.err = "nil" \/ ~IsNotExist(st.err)
               THEN FrameReturn(pr, Err(st.err))
               ELSE IF par.panic # "" THEN Panic(pr, par.panic)
               ELSE EnterEDINE([pr EXCEPT !.stack[Len(pr.stack)].pc = "wait"],
                               par.c.Directory)]
    IN  /\ pr.pc = "edine"
        /\ Top(pr).pc = "stat"
        /\ \E fault \in BOOLEAN :
              /\ Faulty(fault)
              /\ After(IF fault THEN Failed ELSE SysStat(fs, Top(pr).Directory),
                       parentConfig([pr.c EXCEPT !.Directory = Top(pr).Directory]))
        /\ UNCHANGED fs

\* line 115 without the os.IsExist test of line 116: every mkdir error is
\* returned
EDINEMkdirStrict(p) ==
    LET pr == proc[p]
        After(r) ==
            LET lg == IF r.err = "nil" THEN Logged(pr, "mkdir", Top(pr).Directory)
                      ELSE [pr EXCEPT !.eexist = @ \/ IsExist(r.err)]
            IN  /\ fs' = r.fs
                /\ proc' = [proc EXCEPT ![p] =
                      IF r.err # "nil" THEN FrameReturn(lg, Err(r.err))
                      ELSE IF pr.c.EnsureDirectoryOwnership
                      THEN [lg EXCEPT !.stack[Len(pr.stack)].pc = "ostat"]
                      ELSE FrameReturn(lg, Nil)]
    IN  /\ pr.pc = "edine"
        /\ Top(pr).pc = "mkdir"
        /\ \E fault \in BOOLEAN :
              /\ Faulty(fault)
              /\ After(IF fault THEN Failed
                       ELSE SysMkdir(fs, Top(pr).Directory, getDirectoryMode(pr.c)))

\* line 115: os.Mkdir with the configured mode; "already exists" is success
EDINEMkdir(p) ==
    LET pr == proc[p]
        After(r) ==
            LET lg == IF r.err = "nil" THEN Logged(pr, "mkdir", Top(pr).Directory)
                      ELSE [pr EXCEPT !.eexist = @ \/ IsExist(r.err)]
            IN  /\ fs' = r.fs
                /\ proc' = [proc EXCEPT ![p] =
                      IF r.err # "nil" /\ ~IsExist(r.err) THEN FrameReturn(lg, Err(r.err))
                      ELSE IF pr.c.EnsureDirectoryOwnership
                      THEN [lg EXCEPT !.stack[Len(pr.stack)].pc = "ostat"]
                      ELSE FrameReturn(lg, Nil)]
    IN  /\ pr.pc = "edine"
        /\ Top(pr).pc = "mkdir"
        /\ \E fault \in BOOLEAN :
              /\ Faulty(fault)
              /\ After(IF fault THEN Failed
                       ELSE SysMkdir(fs, Top(pr).Directory, getDirectoryMode(pr.c)))

\* lines 122-127: os.Stat of the created directory, and the owner check
EDINEOwnerStat(p) ==
    LET pr == proc[p]
        After(st) ==
            proc' = [proc EXCEPT ![p] =
               IF st.err # "nil" THEN FrameReturn(pr, Err(st.err))
               ELSE IF OwnerDiffers(st.info, pr.c.DirectoryUID, pr.c.DirectoryGID)
               THEN [pr EXCEPT !.stack[Len(pr.stack)].pc = "chown"]
               ELSE FrameReturn(pr, Nil)]
    IN  /\ pr.pc = "edine"
        /\ Top(pr).pc = "ostat"
        /\ \E fault \in BOOLEAN :
              /\ Faulty(fault)
              /\ After(IF fault THEN Failed ELSE SysStat(fs, Top(pr).Directory))
        /\ UNCHANGED fs

\* line 128: os.Chown of the created directory
EDINEChown(p) ==
    LET pr == proc[p]
        After(r) ==
            LET lg == IF r.err = "nil" THEN Logged(pr, "chown", Top(pr).Directory) ELSE pr
            IN  /\ fs' = r.fs
                /\ proc' = [proc EXCEPT ![p] = FrameReturn(lg, Err(r.err))]
    IN  /\ pr.pc = "edine"
        /\ Top(pr).pc = "chown"
        /\ \E fault \in BOOLEAN :
              /\ Faulty(fault)
              /\ After(IF fault THEN Failed
                       ELSE SysChown(fs, Top(pr).Directory, pr.c.DirectoryUID,
                                     pr.c.DirectoryGID))

(***************************************************************************)
(* Config.EnsureDirectory, lines 46-92.                                     *)
(***************************************************************************)
\* lines 46-52: the checks of the configured directory
StartEnsureDirectory(p, c) ==
    LET Checked(pr, msg) ==
            proc' = [proc EXCEPT ![p] =
               IF msg # "" THEN Panic(pr, msg) ELSE [pr EXCEPT !.pc = "ed_stat"]]
    IN  /\ Checked(Begin(p, "EnsureDirectory", c, Empty), DirectoryPanic(c))
        /\ UNCHANGED <<fs, faults>>

CallEnsureDirectory(p, CS, DS) ==
    /\ proc[p].pc = "idle"
    /\ \E c0 \in CS, d \in DS : StartEnsureDirectory(p, [c0 EXCEPT !.Directory = d])

RepeatEnsureDirectory(p) ==
    /\ CanRepeat(p, "EnsureDirectory")
    /\ StartEnsureDirectory(p, ArgConfig(proc[p]))

\* lines 78-91 with info in hand: chown on a mismatch, or return nil
EDOwnership(pr) ==
    IF /\ pr.c.EnsureDirectoryOwnership
       /\ OwnerDiffers(pr.info, pr.c.DirectoryUID, pr.c.DirectoryGID)
    THEN [pr EXCEPT !.pc = "ed_chown"]
    ELSE Done(pr, Nil)

\* lines 71-76 with info in hand: chmod when the mode is not the configured
\* mode with the directory bit
EDMode(pr) ==
    IF pr.info.mode # BitOr(getDirectoryMode(pr.c), ModeDir)
    THEN [pr EXCEPT !.pc = "ed_chmod"]
    ELSE EDOwnership(pr)

\* line 54: the first os.Stat
EDStat(p) ==
    LET pr == proc[p]
        After(st) ==
            proc' = [proc EXCEPT ![p] =
               IF st.err = "nil" THEN EDMode([pr EXCEPT !.info = st.info])
               ELSE IF ~IsNotExist(st.err) THEN Done(pr, Err(st.err))
               ELSE EnterEDINE(pr, pr.c.Directory)]
    IN  /\ pr.pc = "ed_stat"
        /\ \E fault \in BOOLEAN :
              /\ Faulty(fault)
              /\ After(IF fault THEN Failed ELSE SysStat(fs, pr.c.Directory))
        /\ UNCHANGED fs

\* line 65: os.Stat again, after the directory was created
EDRestat(p) ==
    LET pr == proc[p]
        After(st) ==
            proc' = [proc EXCEPT ![p] =
               IF st.err # "nil" THEN Done(pr, Err(st.err))
               ELSE EDMode([pr EXCEPT !.info = st.info])]
    IN  /\ pr.pc = "ed_stat2"
        /\ \E fault \in BOOLEAN :
              /\ Faulty(fault)
              /\ After(IF fault THEN Failed ELSE SysStat(fs, pr.c.Directory))
        /\ UNCHANGED fs

\* line 72: os.Chmod to the configured mode
EDChmod(p) ==
    LET pr == proc[p]
        After(r) ==
            LET lg == IF r.err = "nil" THEN Logged(pr, "chmod", pr.c.Directory) ELSE pr
            IN  /\ fs' = r.fs
                /\ proc' = [proc EXCEPT ![p] =
                      IF r.err # "nil" THEN Done(lg, Err(r.err)) ELSE EDOwnership(lg)]
    IN  /\ pr.pc = "ed_chmod"
        /\ \E fault \in BOOLEAN :
              /\ Faulty(fault)
              /\ After(IF fault THEN Failed
                       ELSE SysChmod(fs, pr.c.Directory, getDirectoryMode(pr.c)))

\* line 81: os.Chown to the configured owner
EDChown(p) ==
    LET pr == proc[p]
        After(r) ==
            LET lg == IF r.err = "nil" THEN Logged(pr, "chown", pr.c.Directory) ELSE pr
            IN  /\ fs' = r.fs
                /\ proc' = [proc EXCEPT ![p] = Done(lg, Err(r.err))]
    IN  /\ pr.pc = "ed_chown"
        /\ \E fault \in BOOLEAN :
              /\ Faulty(fault)
              /\ After(IF fault THEN Failed
                       ELSE SysChown(fs, pr.c.Directory, pr.c.DirectoryUID,
                                     pr.c.DirectoryGID))

(***************************************************************************)
(* Config.WriteFile, lines 157-252.                                         *)
(***************************************************************************)
\* lines 157-177 followed by a call of EnsureDirectory, in the place of the
\* EnsureDirectoryIfNotExist of line 201 that only a missing directory gets
StartWriteFileEnsuring(p, c, name) ==
    LET Checked(pr, v) ==
            proc' = [proc EXCEPT ![p] =
               IF v.kind = "panic" THEN Panic(pr, v.msg)
               ELSE IF v.kind = "error" THEN Done(pr, v.err)
               ELSE [pr EXCEPT !.pc = "ed_stat", !.c = v.c, !.name = v.name]]
    IN  /\ Checked(Begin(p, "WriteFile", c, name), Validate(c, name))
        /\ UNCHANGED <<fs, faults>>

\* lines 157-177: the checks and the recursion into the name's directory
StartWriteFile(p, c, name) ==
    LET Checked(pr, v) ==
            proc' = [proc EXCEPT ![p] =
               IF v.kind = "panic" THEN Panic(pr, v.msg)
               ELSE IF v.kind = "error" THEN Done(pr, v.err)
               ELSE [pr EXCEPT !.pc = "wf_temp", !.c = v.c, !.name = v.name]]
    IN  /\ Checked(Begin(p, "WriteFile", c, name), Validate(c, name))
        /\ UNCHANGED <<fs, faults>>

CallWriteFile(p, CS, DS, NS) ==
    /\ proc[p].pc = "idle"
    /\ \E c0 \in CS, d \in DS, n \in NS :
          StartWriteFile(p, [c0 EXCEPT !.Directory = d], n)

RepeatWriteFile(p) ==
    /\ CanRepeat(p, "WriteFile")
    /\ StartWriteFile(p, ArgConfig(proc[p]), proc[p].arg.name)

\* a temp file opened without O_EXCL: a regular file that has the name
\* already is opened as it is
TempFileNoExcl(fsys, dir, pattern, r, id) ==
    LET Of(t, name) ==
            IF IsExist(t.err) /\ fsys[name].kind = "file"
            THEN [err |-> "nil", fs |-> fsys, name |-> name, f |-> fsys[name].id]
            ELSE [err |-> t.err, fs |-> t.fs, name |-> name, f |-> t.f]
    IN  Of(SysCreateExcl(fsys, TempName(dir, pattern, r), id), TempName(dir, pattern, r))

\* ioutil.TempFile(dir, pattern) drawing r: names that exist are skipped
\* (O_EXCL), so the file is created under r when r is free; the error is
\* that of the open, "exists" only when every name is taken
TempFile(fsys, dir, pattern, r, id) ==
    LET Of(t) ==
            IF \/ ~IsExist(t.err)
               \/ \A x \in Rand :
                     IsExist(SysCreateExcl(fsys, TempName(dir, pattern, x), id).err)
            THEN [err |-> t.err, fs |-> t.fs, name |-> TempName(dir, pattern, r),
                  f |-> t.f]
            ELSE [err |-> "skip", fs |-> fsys, name |-> Empty, f |-> NoFile]
    IN  Of(SysCreateExcl(fsys, TempName(dir, pattern, r), id))

\* lines 199-210 with a retry after any failure of the first attempt
TempFileStepRetryAny(p, first) ==
    LET After(t) ==
          LET pr == Attempted(proc[p], "TempFile", Err(t.err)) IN
            /\ t.err # "skip"
            /\ fs' = t.fs
            /\ proc' = [proc EXCEPT ![p] =
                  IF t.err = "nil"
                  THEN [pr EXCEPT !.f = t.f, !.open = TRUE, !.tmpName = t.name,
                                  !.made = t.name, !.pc = "wf_stat"]
                  ELSE IF first THEN EnterEDINE(pr, pr.c.Directory)
                  ELSE WFReturn(pr, Err(t.err))]
    IN  \E r \in Rand, fault \in BOOLEAN :
           /\ Faulty(fault)
           /\ After(IF fault THEN Failed
                    ELSE TempFile(fs, proc[p].c.Directory,
                                  getTempPattern(proc[p].c), r, proc[p].id))

\* lines 199-210: create the temp file; at the first attempt a missing
\* directory is created and the creation retried
TempFileStep(p, first) ==
    LET After(t) ==
          LET pr == Attempted(proc[p], "TempFile", Err(t.err)) IN
            /\ t.err # "skip"
            /\ fs' = t.fs
            /\ proc' = [proc EXCEPT ![p] =
                  IF t.err = "nil"
                  THEN [pr EXCEPT !.f = t.f, !.open = TRUE, !.tmpName = t.name,
                                  !.made = t.name, !.pc = "wf_stat"]
                  ELSE IF first /\ IsNotExist(t.err) THEN EnterEDINE(pr, pr.c.Directory)
                  ELSE WFReturn(pr, Err(t.err))]
    IN  \E r \in Rand, fault \in BOOLEAN :
           /\ Faulty(fault)
           /\ After(IF fault THEN Failed
                    ELSE TempFile(fs, proc[p].c.Directory,
                                  getTempPattern(proc[p].c), r, proc[p].id))

\* line 199
WFTempFile(p) == proc[p].pc = "wf_temp" /\ TempFileStep(p, TRUE)

\* line 205
WFTempFileRetry(p) == proc[p].pc = "wf_temp2" /\ TempFileStep(p, FALSE)

\* lines 224-234 without the test of EnsureFileOwnership of line 223
WFOwnershipUnasked(pr) ==
    IF OwnerDiffers(pr.info, pr.c.FileUID, pr.c.FileGID)
    THEN [pr EXCEPT !.pc = "wf_chown"]
    ELSE [pr EXCEPT !.pc = "wf_op"]

\* lines 223-234 with info in hand: chown on a mismatch, or go on to the
\* callback
WFOwnership(pr) ==
    IF pr.c.EnsureFileOwnership /\ OwnerDiffers(pr.info, pr.c.FileUID, pr.c.FileGID)
    THEN [pr EXCEPT !.pc = "wf_chown"]
    ELSE [pr EXCEPT !.pc = "wf_op"]

\* lines 212-215 without the mode test of lines 216-221: the temp file keeps
\* the mode it was created with
WFStatNoMode(p) ==
    LET pr == proc[p]
        After(st) ==
            proc' = [proc EXCEPT ![p] =
               IF st.err # "nil" THEN WFReturn(pr, Err(st.err))
               ELSE WFOwnership([pr EXCEPT !.info = st.info])]
    IN  /\ pr.pc = "wf_stat"
        /\ \E fault \in BOOLEAN :
              /\ Faulty(fault)
              /\ After(IF fault THEN Failed ELSE SysFstat(fs, pr.f))
        /\ UNCHANGED fs

\* lines 212-216: f.Stat, and the mode check
WFStat(p) ==
    LET pr == proc[p]
        After(st) ==
            proc' = [proc EXCEPT ![p] =
               IF st.err # "nil" THEN WFReturn(pr, Err(st.err))
               ELSE IF st.info.mode # getFileMode(pr.c)
               THEN [pr EXCEPT !.info = st.info, !.pc = "wf_chmod"]
               ELSE WFOwnership([pr EXCEPT !.info = st.info])]
    IN  /\ pr.pc = "wf_stat"
        /\ \E fault \in BOOLEAN :
              /\ Faulty(fault)
              /\ After(IF fault THEN Failed ELSE SysFstat(fs, pr.f))
        /\ UNCHANGED fs

\* line 217: os.Chmod of the temp file
WFChmod(p) ==
    LET pr == proc[p]
        After(r) ==
            LET lg == IF r.err = "nil" THEN Logged(pr, "chmod", pr.tmpName) ELSE pr
            IN  /\ fs' = r.fs
                /\ proc' = [proc EXCEPT ![p] =
                      IF r.err # "nil" THEN WFReturn(lg, Err(r.err)) ELSE WFOwnership(lg)]
    IN  /\ pr.pc = "wf_chmod"
        /\ \E fault \in BOOLEAN :
              /\ Faulty(fault)
              /\ After(IF fault THEN Failed
                       ELSE SysChmod(fs, pr.tmpName, getFileMode(pr.c)))

\* line 226: os.Chown of the temp file
WFChown(p) ==
    LET pr == proc[p]
        After(r) ==
            LET lg == IF r.err = "nil" THEN Logged(pr, "chown", pr.tmpName) ELSE pr
            IN  /\ fs' = r.fs
                /\ proc' = [proc EXCEPT ![p] =
                      IF r.err # "nil" THEN WFReturn(lg, Err(r.err))
                      ELSE [lg EXCEPT !.pc = "wf_op"]]
    IN  /\ pr.pc = "wf_chown"
        /\ \E fault \in BOOLEAN :
              /\ Faulty(fault)
              /\ After(IF fault THEN Failed
                       ELSE SysChown(fs, pr.tmpName, pr.c.FileUID, pr.c.FileGID))

\* line 236, the callback at work: it writes the next chunk of its content
\* through the handle
OpWrite(p) ==
    LET pr == proc[p]
    IN  /\ pr.pc = "wf_op"
        /\ pr.open
        /\ pr.wrote < PayloadLen
        /\ fs' = SysWrite(fs, pr.f, pr.id)
        /\ proc' = [proc EXCEPT ![p].wrote = @ + 1]
        /\ UNCHANGED faults

\* line 236, the callback at work: it closes the handle it was given
OpClose(p) ==
    LET pr == proc[p]
    IN  /\ pr.pc = "wf_op"
        /\ pr.open
        /\ proc' = [proc EXCEPT ![p].open = FALSE]
        /\ UNCHANGED <<fs, faults>>

\* line 236 without the test of lines 237-239: whatever the callback
\* returns, WriteFile goes on to close and rename
OpReturnUnchecked(p) ==
    LET pr == proc[p]
    IN  /\ pr.pc = "wf_op"
        /\ \E ok \in BOOLEAN :
              /\ ok => pr.wrote = PayloadLen
              /\ proc' = [proc EXCEPT ![p] = [pr EXCEPT !.pc = "wf_close"]]
        /\ UNCHANGED <<fs, faults>>

\* lines 236-239: the callback returns nil once it has written everything,
\* or an error at any point
OpReturn(p) ==
    LET pr == proc[p]
    IN  /\ pr.pc = "wf_op"
        /\ \E ok \in BOOLEAN :
              /\ ok => pr.wrote = PayloadLen
              /\ proc' = [proc EXCEPT ![p] =
                    IF ok THEN [pr EXCEPT !.pc = "wf_close"]
                    ELSE WFReturn(pr, Err("opErr"))]
        /\ UNCHANGED <<fs, faults>>

\* (*os.File).Close: the descriptor is released whatever close reports; a
\* handle closed before reports os.ErrClosed
FileClose(pr, fault) ==
    [err |-> IF ~pr.open THEN "ErrClosed" ELSE IF fault THEN "EIO" ELSE "nil",
     open |-> FALSE]

\* lines 241-245: f.Close, and f = nil
WFClose(p) ==
    LET pr == proc[p]
        After(r) ==
            LET cl == [pr EXCEPT !.open = r.open, !.f = NoFile]
            IN  proc' = [proc EXCEPT ![p] =
                   IF r.err # "nil" THEN WFReturn(cl, Err(r.err))
                   ELSE [cl EXCEPT !.pc = "wf_rename"]]
    IN  /\ pr.pc = "wf_close"
        /\ \E fault \in BOOLEAN : Faulty(fault) /\ After(FileClose(pr, fault))
        /\ UNCHANGED fs

\* line 247 renaming into the directory WriteFile was first called with, not
\* the directory of the recursion of lines 174-176
WFRenameArgDirectory(p) ==
    LET pr == proc[p]
        After(r, final) ==
            LET lg == IF r.err = "nil" THEN Logged(pr, "rename", final) ELSE pr
            IN  /\ fs' = r.fs
                /\ proc' = [proc EXCEPT ![p] =
                      IF r.err = "nil" THEN WFReturn([lg EXCEPT !.tmpName = Empty], Nil)
                      ELSE WFReturn(lg, Err(r.err))]
        Rename(final) ==
            \E fault \in BOOLEAN :
               /\ Faulty(fault)
               /\ After(IF fault THEN Failed ELSE SysRename(fs, pr.tmpName, final), final)
    IN  /\ pr.pc = "wf_rename"
        /\ Rename(Join(pr.arg.Directory, pr.name))

\* lines 247-251: os.Rename to the final name; on success the temp name is
\* forgotten and nil is returned
WFRename(p) ==
    LET pr == proc[p]
        After(r, final) ==
            LET lg == IF r.err = "nil" THEN Logged(pr, "rename", final) ELSE pr
            IN  /\ fs' = r.fs
                /\ proc' = [proc EXCEPT ![p] =
                      IF r.err = "nil" THEN WFReturn([lg EXCEPT !.tmpName = Empty], Nil)
                      ELSE WFReturn(lg, Err(r.err))]
        Rename(final) ==
            \E fault \in BOOLEAN :
               /\ Faulty(fault)
               /\ After(IF fault THEN Failed ELSE SysRename(fs, pr.tmpName, final), final)
    IN  /\ pr.pc = "wf_rename"
        /\ Rename(Join(pr.c.Directory, pr.name))

\* lines 190-195: the end of the deferred function: an unexpected cleanup
\* or close error panics, otherwise WriteFile returns err
DeferEnd(pr, cleanupErr) ==
    IF cleanupErr # "nil" /\ ~IsNotExist(cleanupErr)
    THEN Panic(pr, cleanupErr)
    ELSE IF pr.closeErr # Nil THEN Panic(pr, pr.closeErr.kind)
    ELSE [pr EXCEPT !.pc = "done"]

\* lines 184-186: f is not nil, the deferred function closes it
DeferClose(p) ==
    LET pr == proc[p]
        After(r) ==
            LET cl == [pr EXCEPT !.open = r.open, !.closeErr = Err(r.err)]
            IN  proc' = [proc EXCEPT ![p] =
                   IF cl.tmpName # Empty THEN [cl EXCEPT !.pc = "defer_remove"]
                   ELSE DeferEnd(cl, "nil")]
    IN  /\ pr.pc = "defer_close"
        /\ \E fault \in BOOLEAN : Faulty(fault) /\ After(FileClose(pr, fault))
        /\ UNCHANGED fs

\* lines 187-189: the temp name is still tracked, the deferred function
\* removes the file
DeferRemove(p) ==
    LET pr == proc[p]
        After(r) ==
            LET lg == IF r.err = "nil" THEN Logged(pr, "remove", pr.tmpName) ELSE pr
            IN  /\ fs' = r.fs
                /\ proc' = [proc EXCEPT ![p] = DeferEnd(lg, r.err)]
    IN  /\ pr.pc = "defer_remove"
        /\ \E fault \in BOOLEAN :
              /\ Faulty(fault)
              /\ After(IF fault THEN Failed ELSE SysRemove(fs, pr.tmpName))

(***************************************************************************)
(* The callers.  A caller makes a call with a configuration, a directory    *)
(* and a name drawn from CS, DS and NS and runs it step by step.            *)
(***************************************************************************)
Call(p, CS, DS, NS) ==
    \/ CallEnsureDirectory(p, CS, DS)
    \/ CallEnsureDirectoryIfNotExist(p, CS, DS)
    \/ CallWriteFile(p, CS, DS, NS)

Repeat(p) ==
    \/ RepeatEnsureDirectory(p)
    \/ RepeatEnsureDirectoryIfNotExist(p)
    \/ RepeatWriteFile(p)

Run(p) ==
    \/ EDStat(p)
    \/ EDRestat(p)
    \/ EDChmod(p)
    \/ EDChown(p)
    \/ EDINEStat(p)
    \/ EDINEMkdir(p)
    \/ EDINEOwnerStat(p)
    \/ EDINEChown(p)
    \/ WFTempFile(p)
    \/ WFTempFileRetry(p)
    \/ WFStat(p)
    \/ WFChmod(p)
    \/ WFChown(p)
    \/ OpWrite(p)
    \/ OpClose(p)
    \/ OpReturn(p)
    \/ WFClose(p)
    \/ WFRename(p)
    \/ DeferClose(p)
    \/ DeferRemove(p)

\* one caller, every input, system calls that fail, calls made again
Next == Call(1, Configs, Directories, Names) \/ Run(1) \/ Repeat(1)

Spec == Init /\ [][Next]_vars

\* the steps of EnsureDirectoryIfNotExist
RunEDINE(p) == EDINEStat(p) \/ EDINEMkdir(p) \/ EDINEOwnerStat(p) \/ EDINEChown(p)

\* one caller whose EnsureDirectoryIfNotExist, once invoked, runs on, as a
\* goroutine that is in a call keeps executing it: weak fairness of the
\* steps, WF_vars(RunEDINE(1)), written with the condition that enables
\* them, pc = "edine", in the place of ENABLED
SpecLive ==
    /\ Init
    /\ [][Next]_vars
    /\ []<>(proc[1].pc # "edine") \/ []<><<RunEDINE(1)>>_vars

\* concurrent callers, one call each, no system call failing
InitConc ==
    /\ fs = InitFS
    /\ proc = [p \in Procs |-> IdleProc]
    /\ faults = 0

NextConc == \E p \in Procs : Call(p, ConcConfigs, ConcDirectories, ConcNames) \/ Run(p)

SpecConc == InitConc /\ [][NextConc]_vars

\* the final names concurrent callers in one directory write: one that no
\* temp pattern matches, and one that ConcConfigs' pattern "t*" matches
DirNames == {<<"f">>, <<"t", "1">>}

\* the directory they write into
DirDirectories == {PathBC}

\* the steps of WriteFile, those of the EnsureDirectoryIfNotExist it calls
\* included
RunWriteFile(p) ==
    \/ RunEDINE(p)
    \/ WFTempFile(p)
    \/ WFTempFileRetry(p)
    \/ WFStat(p)
    \/ WFChmod(p)
    \/ WFChown(p)
    \/ OpWrite(p)
    \/ OpClose(p)
    \/ OpReturn(p)
    \/ WFClose(p)
    \/ WFRename(p)
    \/ DeferClose(p)
    \/ DeferRemove(p)

\* concurrent WriteFile calls in one directory, one call each, no system
\* call failing
NextDir ==
    \E p \in Procs :
       CallWriteFile(p, ConcConfigs, DirDirectories, DirNames) \/ RunWriteFile(p)

SpecDir == InitConc /\ [][NextDir]_vars

(***************************************************************************)
(* Properties.                                                              *)
(***************************************************************************)
\* the path WriteFile's caller asked to be written: directory/name
FinalPath(pr) == Join(pr.arg.Directory, pr.arg.name)

\* the bytes the callback of the call with identity id writes in all
Payload(id) == [i \in 1..PayloadLen |-> id]

\* bytes that are all a callback wrote before it returned success
Complete(data) == \E p \in Procs, k \in 0..MaxRepeats : data = Payload(<<p, k>>)

IsFileNode(fsys, node) == Exists(fsys, node) /\ fsys[node].kind = "file"

\* the caller is in a call of op
InCall(pr, op) == pr.op = op /\ pr.pc # "idle"

\* the call of op has returned to its caller
HasReturned(pr, op) == pr.op = op /\ pr.pc = "done"

\* C1: atomic publish.  In every state of a WriteFile call, in the middle of
\* the callback's writes and after any failure too, what is at directory/name
\* is nothing, or the bytes that were there before, or all the bytes of one
\* callback; a partly written file is never there.
AtomicPublish ==
    \A p \in Procs :
       InCall(proc[p], "WriteFile") /\ IsFileNode(fs, FinalPath(proc[p]))
          => \/ fs[FinalPath(proc[p])].data = OldData
             \/ Complete(fs[FinalPath(proc[p])].data)

\* a second call has written part of its content to its temp file while the
\* final name holds all the first call wrote
AtomicPublishWitness ==
    /\ proc[1].op = "WriteFile"
    /\ proc[1].pc = "wf_op"
    /\ proc[1].reps = 1
    /\ proc[1].wrote = 1
    /\ IsFileNode(fs, FinalPath(proc[1]))
    /\ fs[FinalPath(proc[1])].data = Payload(<<1, 0>>)
    /\ fs[proc[1].tmpName].data = <<proc[1].id>>

\* C2: a WriteFile call with an absolute directory and a relative name that
\* stays inside it, once it has returned nil, has left at directory/name a
\* regular file with exactly the bytes its callback wrote, and no file named
\* after the temp pattern in the directory.
SuccessPublishes ==
    \A p \in Procs :
       HasReturned(proc[p], "WriteFile") /\ proc[p].err = Nil
          => /\ IsFileNode(fs, FinalPath(proc[p]))
             /\ proc[p].wrote = PayloadLen
             /\ fs[FinalPath(proc[p])].data = [i \in 1..proc[p].wrote |-> proc[p].id]
             /\ \A d \in {Dir(FinalPath(proc[p])), Clean(proc[p].arg.Directory)}, r \in Rand :
                   ~Exists(fs, TempName(d, getTempPattern(proc[p].c), r))

\* a call with a name in a subdirectory that did not exist has returned nil
SuccessPublishesWitness ==
    /\ HasReturned(proc[1], "WriteFile")
    /\ proc[1].err = Nil
    /\ proc[1].arg.name = <<"c", "/", "f">>
    /\ <<"mkdir", Dir(FinalPath(proc[1]))>> \in proc[1].log

\* the callback of the call has returned an error
CallbackFailed(pr) ==
    /\ pr.op = "WriteFile"
    /\ pr.pc \in {"defer_close", "defer_remove", "done", "panicked"}
    /\ pr.err = Err("opErr")

\* C3: when the callback returns an error, WriteFile returns that error (it
\* ends otherwise only when the cleanup met an I/O error), nothing was
\* renamed, directory/name is absent or has the bytes it had, and the call's
\* temp file is gone.
CallbackFailureReturned ==
    \A p \in Procs :
       CallbackFailed(proc[p])
          => /\ proc[p].pc = "panicked" => proc[p].panic = "EIO"
             /\ \A e \in proc[p].log : e[1] # "rename"
             /\ proc[p].pc = "done"
                   => /\ proc[p].err = Err("opErr")
                      /\ NodesOf(fs, proc[p].id) = {}
                      /\ IsFileNode(fs, FinalPath(proc[p]))
                            => fs[FinalPath(proc[p])].id # proc[p].id

\* the callback closed the handle it was given and returned an error, and
\* the call ended in a panic
CallbackFailurePanicked ==
    /\ CallbackFailed(proc[1])
    /\ proc[1].pc = "panicked"
    /\ proc[1].panic = "ErrClosed"

\* the resolved path of name leaves the directory
Escapes(dir, name) ==
    /\ Clean(dir) # Root
    /\ ~HasPrefix(Join(dir, name), Clean(dir) \o <<Sep>>)

\* C4: WriteFile with an absolute name, or with a relative name whose
\* resolved path leaves the configured directory, returns InvalidName of the
\* name, and nothing of the file system was changed: no mkdir, no temp file,
\* no rename.
InvalidNameRejected ==
    \A p \in Procs :
       /\ InCall(proc[p], "WriteFile")
       /\ DirectoryPanic(ArgConfig(proc[p])) = ""
       /\ IsAbs(proc[p].arg.name) \/ Escapes(proc[p].arg.Directory, proc[p].arg.name)
       => /\ proc[p].pc = "done"
          /\ proc[p].err = InvalidName(proc[p].arg.name)
          /\ proc[p].log = {}
          /\ proc[p].made = Empty
          /\ fs = InitFS

\* a name that leaves /a for the sibling /ab was rejected
InvalidNameRejectedWitness ==
    /\ HasReturned(proc[1], "WriteFile")
    /\ proc[1].arg = [Directory |-> PathA, name |-> <<".", ".", "/", "a", "b", "/", "f">>]
    /\ proc[1].err = InvalidName(proc[1].arg.name)

\* the entry at the configured directory is a directory with the configured
\* mode and, when ownership is ensured, the configured owner
DirectoryAsConfigured(fsys, c) ==
    LET At(w) ==
            /\ w.err = "nil"
            /\ fsys[w.node].kind = "dir"
            /\ fsys[w.node].mode = getDirectoryMode(c)
            /\ c.EnsureDirectoryOwnership
                  => fsys[w.node].uid = c.DirectoryUID /\ fsys[w.node].gid = c.DirectoryGID
    IN  At(Lookup(fsys, c.Directory))

\* C5: whenever EnsureDirectory has returned nil, the configured path is a
\* directory, not a regular file, with the configured mode and, when
\* ownership is ensured, the configured uid and gid.
EnsuredIsDirectory ==
    \A p \in Procs :
       HasReturned(proc[p], "EnsureDirectory") /\ proc[p].err = Nil
          => DirectoryAsConfigured(fs, proc[p].c)

\* EnsureDirectory has returned nil for a path that is a regular file
EnsuredRegularFile ==
    /\ HasReturned(proc[1], "EnsureDirectory")
    /\ proc[1].err = Nil
    /\ IsFileNode(fs, proc[1].c.Directory)

\* the caller is in, or back from, a second EnsureDirectory that follows one
\* that returned nil, and no system call has failed for an outside reason
SecondEnsureDirectory(pr) ==
    /\ InCall(pr, "EnsureDirectory")
    /\ pr.prev.op = "EnsureDirectory"
    /\ pr.prev.ok
    /\ faults = MaxFaults

\* C6: EnsureDirectory is idempotent: called again after it returned nil,
\* with nothing changed in between, it makes no mkdir, chmod or chown and
\* returns nil.
EnsureDirectoryIdempotent ==
    \A p \in Procs :
       SecondEnsureDirectory(proc[p])
          => /\ proc[p].log = {}
             /\ proc[p].pc # "panicked"
             /\ proc[p].pc = "done" => proc[p].err = Nil

\* the second EnsureDirectory of a path that is a regular file has run chmod
SecondEnsureDirectoryChmod ==
    /\ SecondEnsureDirectory(proc[1])
    /\ <<"chmod", proc[1].c.Directory>> \in proc[1].log

\* C7: when the configuration has a directory mode of its own, or ensures
\* ownership, every directory a call that returned nil has created, the
\* target and the ancestors made on the way, has exactly the configured mode
\* and, when ownership is ensured, the configured owner.
CreatedAsConfigured ==
    \A p \in Procs :
       /\ proc[p].pc = "done"
       /\ proc[p].err = Nil
       /\ proc[p].c.DirectoryMode # 0 \/ proc[p].c.EnsureDirectoryOwnership
       => \A e \in proc[p].log :
             e[1] = "mkdir"
                => DirectoryAsConfigured(fs, [proc[p].c EXCEPT !.Directory = e[2]])

\* EnsureDirectoryIfNotExist has returned nil having made a directory whose
\* mode is the configured mode less the umask's bits
CreatedWithMaskedMode ==
    /\ HasReturned(proc[1], "EnsureDirectoryIfNotExist")
    /\ proc[1].err = Nil
    /\ \E e \in proc[1].log :
          /\ e[1] = "mkdir"
          /\ fs[e[2]].mode # getDirectoryMode(proc[1].c)
          /\ fs[e[2]].mode = BitAnd(getDirectoryMode(proc[1].c), Oct(7, 7, 7) - Umask)

\* the call holds a temp file: created, and not yet renamed or removed
HoldsTemp(pr) ==
    /\ pr.op = "WriteFile"
    /\ pr.pc \in {"wf_stat", "wf_chmod", "wf_chown", "wf_op", "wf_close", "wf_rename",
                  "defer_close", "defer_remove"}
    /\ pr.tmpName # Empty

\* every caller's call has ended
AllEnded == \A p \in Procs : proc[p].pc \in {"done", "panicked"}

\* the call renamed its temp file to the final name
Renamed(pr) == pr.op = "WriteFile" /\ <<"rename", FinalPath(pr)>> \in pr.log

\* each call that holds a temp file holds one of its own, with the chunks
\* its own callback wrote and no others; and when all calls have ended, a
\* final name that was renamed to has all the bytes of one call that renamed
TempFilesApart ==
    /\ \A p \in Procs :
          HoldsTemp(proc[p])
             => /\ IsFileNode(fs, proc[p].tmpName)
                /\ fs[proc[p].tmpName].id = proc[p].id
                /\ proc[p].f \in {NoFile, proc[p].id}
                /\ fs[proc[p].tmpName].data = [i \in 1..proc[p].wrote |-> proc[p].id]
                /\ \A q \in Procs \ {p} :
                      HoldsTemp(proc[q]) => proc[q].tmpName # proc[p].tmpName
    /\ \A p \in Procs :
          AllEnded /\ Renamed(proc[p])
             => /\ IsFileNode(fs, FinalPath(proc[p]))
                /\ \E q \in Procs :
                      /\ Renamed(proc[q])
                      /\ FinalPath(proc[q]) = FinalPath(proc[p])
                      /\ fs[FinalPath(proc[p])].id = proc[q].id
                      /\ fs[FinalPath(proc[p])].data = Payload(proc[q].id)

\* the step is the successful rename of caller p
RenameStep(p) ==
    /\ proc[p].pc = "wf_rename"
    /\ proc'[p].pc = "done"
    /\ proc'[p].err = Nil

\* a rename puts the renaming call's file, with all its bytes, at the final
\* name, and nothing but a rename to it changes what is at a final name
LastRenameWins ==
    \A p \in Procs :
       /\ RenameStep(p)
             => /\ IsFileNode(fs', FinalPath(proc[p]))
                /\ fs'[FinalPath(proc[p])].id = proc[p].id
                /\ fs'[FinalPath(proc[p])].data = Payload(proc[p].id)
       /\ InCall(proc[p], "WriteFile") /\ IsFileNode(fs, FinalPath(proc[p]))
             => \/ /\ IsFileNode(fs', FinalPath(proc[p]))
                   /\ fs'[FinalPath(proc[p])] = fs[FinalPath(proc[p])]
                \/ \E q \in Procs :
                      RenameStep(q) /\ FinalPath(proc[q]) = FinalPath(proc[p])

\* C8: when WriteFile calls for one final name run concurrently, each has a
\* temp file of its own, no call's writes reach another call's temp file, and
\* what is at directory/name is exactly the complete content of the call
\* whose rename came last, never a mixture of two.
ConcurrentWritersApart == []TempFilesApart /\ [][LastRenameWins]_vars

\* both callers wrote the same final name and returned nil; the file there
\* is the first caller's
ConcurrentWritersWitness ==
    /\ \A p \in Procs : HasReturned(proc[p], "WriteFile") /\ proc[p].err = Nil
    /\ FinalPath(proc[1]) = FinalPath(proc[2])
    /\ \A p \in Procs : Renamed(proc[p])
    /\ fs[FinalPath(proc[1])].data = Payload(proc[1].id)

\* C9: when concurrent callers run EnsureDirectoryIfNotExist, directly or
\* through EnsureDirectory or WriteFile, for the same missing directory, a
\* mkdir that finds the directory made by the other is taken for success:
\* each call of EnsureDirectoryIfNotExist and EnsureDirectory returns nil, no
\* WriteFile returns a directory error, and once a call is past the creation
\* the directory exists.
RaceTolerantCreation ==
    \A p \in Procs :
       proc[p].arg.Directory = PathBC
          => /\ HasReturned(proc[p], "EnsureDirectoryIfNotExist")
                   => proc[p].err = Nil /\ IsDirNode(fs, PathBC)
             /\ HasReturned(proc[p], "EnsureDirectory")
                   => proc[p].err = Nil /\ IsDirNode(fs, PathBC)
             /\ InCall(proc[p], "WriteFile")
                   => /\ proc[p].pc \notin {"wf_temp", "edine"} => IsDirNode(fs, PathBC)
                      /\ proc[p].err.kind \in {"nil", "opErr", "ErrClosed"}
             /\ proc[p].op # "WriteFile" => proc[p].pc # "panicked"

\* both callers ran EnsureDirectoryIfNotExist for the missing /b/c, one's
\* mkdir found a directory the other had made, and both returned nil
RaceTolerantCreationWitness ==
    /\ \A p \in Procs :
          /\ HasReturned(proc[p], "EnsureDirectoryIfNotExist")
          /\ proc[p].arg.Directory = PathBC
          /\ proc[p].err = Nil
    /\ proc[2].eexist
    /\ proc[1].log # {}
    /\ IsDirNode(fs, PathBC)

\* C10: whenever WriteFile returns, with nil or with any error, the handle it
\* opened is closed and the temp file it created is no longer under its temp
\* name.
CleanedUpOnReturn ==
    \A p \in Procs :
       HasReturned(proc[p], "WriteFile")
          => /\ ~proc[p].open
             /\ proc[p].made # Empty => proc[p].made \notin NodesOf(fs, proc[p].id)
             /\ proc[p].made # Empty /\ proc[p].err # Nil => NodesOf(fs, proc[p].id) = {}

\* WriteFile has returned the error of a rename that failed, after it made
\* and wrote its temp file
CleanedUpOnReturnWitness ==
    /\ HasReturned(proc[1], "WriteFile")
    /\ proc[1].err = Err("EIO")
    /\ proc[1].made # Empty
    /\ proc[1].wrote = PayloadLen
    /\ proc[1].f = NoFile
    /\ <<"remove", proc[1].made>> \in proc[1].log

\* the directory a call was made with is empty or not absolute
BadDirectory(pr) == pr.arg.Directory = Empty \/ ~IsAbs(pr.arg.Directory)

\* C11: EnsureDirectory, EnsureDirectoryIfNotExist and WriteFile panic, and do
\* not return an error, when the configured directory is empty or not
\* absolute, before any operation on the file system; in WriteFile the panic
\* comes before the name is looked at, so an invalid name with such a
\* directory gives the panic, not InvalidName.
BadDirectoryPanics ==
    \A p \in Procs :
       proc[p].pc # "idle" /\ BadDirectory(proc[p])
          => /\ proc[p].pc = "panicked"
             /\ proc[p].panic =
                   IF proc[p].arg.Directory = Empty
                   THEN "writefile: Directory must not be \"\""
                   ELSE "writefile: Directory must be absolute"
             /\ proc[p].log = {}
             /\ proc[p].made = Empty
             /\ fs = InitFS
             /\ faults = MaxFaults

\* WriteFile was called with a relative directory and an absolute name, and
\* panicked
BadDirectoryPanicsWitness ==
    /\ proc[1].op = "WriteFile"
    /\ proc[1].arg = [Directory |-> <<"a">>, name |-> <<"/", "f">>]
    /\ proc[1].pc = "panicked"
    /\ proc[1].panic = "writefile: Directory must be absolute"

\* WriteFile has panicked in its deferred function
CleanupPanicked(pr) ==
    pr.op = "WriteFile" /\ pr.pc = "panicked" /\ ~BadDirectory(pr)

\* C12: in WriteFile's cleanup a temp file that is gone already and a handle
\* that is closed already, closed by the callback for one, are tolerated;
\* only other errors of the close or the remove make it panic.
CleanupToleratesBenign ==
    \A p \in Procs :
       CleanupPanicked(proc[p]) => proc[p].panic \notin {"ErrClosed", "ENOENT"}

\* the callback closed the handle; the cleanup removed the temp file without
\* an error, and panicked with the error of its own close
CleanupPanickedOnClosed ==
    /\ CleanupPanicked(proc[1])
    /\ proc[1].closeErr = Err("ErrClosed")
    /\ proc[1].panic = "ErrClosed"
    /\ <<"remove", proc[1].made>> \in proc[1].log
    /\ faults = MaxFaults

\* the file at node has the file mode and, when file ownership is ensured,
\* the owner of configuration c
FileAsConfigured(fsys, node, c) ==
    /\ fsys[node].mode = getFileMode(c)
    /\ c.EnsureFileOwnership
          => fsys[node].uid = c.FileUID /\ fsys[node].gid = c.FileGID

\* C13: WriteFile renames to the final name only after the temp file has the
\* configured mode and, when ensured, owner, the callback has returned nil
\* having written everything, and the handle was closed; so a file WriteFile
\* has put at directory/name has the configured file mode and owner.
PublishOrdering ==
    \A p \in Procs :
       /\ proc[p].pc = "wf_rename"
             => /\ IsFileNode(fs, proc[p].tmpName)
                /\ FileAsConfigured(fs, proc[p].tmpName, proc[p].c)
                /\ proc[p].wrote = PayloadLen
                /\ fs[proc[p].tmpName].data = Payload(proc[p].id)
                /\ ~proc[p].open
                /\ proc[p].f = NoFile
                /\ proc[p].err = Nil
       /\ /\ InCall(proc[p], "WriteFile")
          /\ IsFileNode(fs, FinalPath(proc[p]))
          /\ fs[FinalPath(proc[p])].id # InitFS[PathAF].id
          => FileAsConfigured(fs, FinalPath(proc[p]), proc[p].c)

\* a call that had to chmod and chown its temp file has renamed it
PublishOrderingWitness ==
    /\ HasReturned(proc[1], "WriteFile")
    /\ proc[1].err = Nil
    /\ {<<"chmod", proc[1].made>>, <<"chown", proc[1].made>>,
        <<"rename", FinalPath(proc[1])>>} \subseteq proc[1].log
    /\ fs[FinalPath(proc[1])].id = proc[1].id
    /\ fs[FinalPath(proc[1])].uid = proc[1].c.FileUID

\* path lies below directory dir, and is not dir itself
TrueDescendant(path, dir) ==
    /\ path # dir
    /\ dir = Root \/ HasPrefix(path, dir \o <<Sep>>)

\* the call's name is relative and names a file in a subdirectory, a true
\* descendant of the configured directory
NameInSubdirectory(pr) ==
    /\ pr.op = "WriteFile"
    /\ pr.pc # "idle"
    /\ ~BadDirectory(pr)
    /\ ~IsAbs(pr.arg.name)
    /\ TrueDescendant(Dir(FinalPath(pr)), Clean(pr.arg.Directory))

\* C14: a name in a subdirectory that is a true descendant of the configured
\* directory is accepted for every absolute configured directory, the root
\* too: WriteFile goes on with that subdirectory as the directory and the
\* last element as the name, and a call that returns nil has made the
\* subdirectory and put the file at directory/name.
SubdirectoryAccepted ==
    \A p \in Procs :
       NameInSubdirectory(proc[p])
          => /\ proc[p].err.kind # "InvalidName"
             /\ proc[p].c.Directory = Dir(FinalPath(proc[p]))
             /\ proc[p].name = Base(FinalPath(proc[p]))
             /\ proc[p].pc = "done" /\ proc[p].err = Nil
                   => /\ IsDirNode(fs, Dir(FinalPath(proc[p])))
                      /\ IsFileNode(fs, FinalPath(proc[p]))
                      /\ fs[FinalPath(proc[p])].data = Payload(proc[p].id)

\* WriteFile with the root as directory has rejected the name c/f
SubdirectoryOfRootRejected ==
    /\ HasReturned(proc[1], "WriteFile")
    /\ proc[1].arg = [Directory |-> Root, name |-> <<"c", "/", "f">>]
    /\ proc[1].err = InvalidName(<<"c", "/", "f">>)

\* the path the call was made for existed when the call was made: it was
\* there from the start, or the call before this one created it
ExistedAtCall(pr) ==
    \/ Lookup(InitFS, pr.arg.Directory).err = "nil"
    \/ pr.reps > 0 /\ pr.prev.ok

\* C15: EnsureDirectoryIfNotExist for a path that exists returns nil and
\* leaves the file system as it is, with no mkdir, chmod or chown, also when
\* the mode or the owner of what is there differ from the configuration; for
\* the root it returns nil without any operation on the file system.
ExistingLeftAlone ==
    \A p \in Procs :
       /\ InCall(proc[p], "EnsureDirectoryIfNotExist")
       /\ ~BadDirectory(proc[p])
       /\ ExistedAtCall(proc[p])
       => /\ proc[p].log = {}
          /\ proc[p].pc # "panicked"
          /\ proc[p].reps = 0 => fs = InitFS
          /\ proc[p].pc = "done" /\ faults = MaxFaults => proc[p].err = Nil
          /\ proc[p].arg.Directory = Root
                => proc[p].pc = "done" /\ proc[p].err = Nil /\ faults = MaxFaults

\* EnsureDirectoryIfNotExist has returned nil for /a, whose mode and owner
\* are not the configured ones and are as they were
ExistingLeftAloneWitness ==
    /\ HasReturned(proc[1], "EnsureDirectoryIfNotExist")
    /\ proc[1].arg.Directory = PathA
    /\ proc[1].c.EnsureDirectoryOwnership
    /\ proc[1].err = Nil
    /\ fs[PathA].mode # getDirectoryMode(proc[1].c)
    /\ fs[PathA].uid # proc[1].c.DirectoryUID
    /\ fs[PathA] = InitFS[PathA]

\* the frames of the recursion of EnsureDirectoryIfNotExist: each is invoked
\* for the parent of the one that waits for it, a strictly shorter absolute
\* path that is not the root; the directories of the frames that wait are
\* still missing, and a frame that is past its stat has a parent that exists
RecursionShape(pr) ==
    /\ pr.panic # "wtf"
    /\ pr.pc = "edine"
          => /\ pr.stack # <<>>
             /\ pr.stack[1].Directory = pr.c.Directory
             /\ \A i \in 1..Len(pr.stack) :
                   /\ IsAbs(pr.stack[i].Directory)
                   /\ pr.stack[i].Directory # Root
             /\ \A i \in 1..(Len(pr.stack) - 1) :
                   /\ pr.stack[i].pc = "wait"
                   /\ pr.stack[i + 1].Directory = Dir(pr.stack[i].Directory)
                   /\ Len(pr.stack[i + 1].Directory) < Len(pr.stack[i].Directory)
                   /\ Lookup(fs, pr.stack[i].Directory).err = "ENOENT"
             /\ Top(pr).pc \in {"stat", "mkdir", "ostat", "chown"}
             /\ Top(pr).pc \in {"mkdir", "ostat", "chown"}
                   => Lookup(fs, Dir(Top(pr).Directory)).err = "nil"

\* what is left of the recursion: on the way up the length of the path that
\* is looked at, on the way down the frames and the steps of the top frame
RecursionRank(pr) ==
    LET Steps(pc) == IF pc = "mkdir" THEN 3 ELSE IF pc = "ostat" THEN 2 ELSE 1
    IN  IF Top(pr).pc = "stat"
        THEN 4 * Len(pr.c.Directory) + 4 + Len(Top(pr).Directory)
        ELSE 4 * Len(pr.stack) + Steps(Top(pr).pc)

\* a step that stays in the recursion leaves less of it
RecursionAdvances ==
    \A p \in Procs :
       proc[p].pc = "edine" /\ proc'[p].pc = "edine" /\ proc'[p] # proc[p]
          => RecursionRank(proc'[p]) < RecursionRank(proc[p])

\* C16: for every non-empty absolute directory the upward recursion of
\* EnsureDirectoryIfNotExist ends: each parent is strictly shorter than its
\* path, the recursion stops at the root or at the first ancestor that
\* exists, the directories are made from the topmost missing one downward,
\* and the panic of "parent equals itself" is never reached.
RecursionTerminates ==
    /\ [](\A p \in Procs : RecursionShape(proc[p]))
    /\ [][RecursionAdvances]_vars
    /\ \A p \in Procs : [](proc[p].pc = "edine" => <>(proc[p].pc # "edine"))

\* the recursion for the missing /b/c is two frames deep: /b/c waits for /b
RecursionTerminatesWitness ==
    /\ proc[1].pc = "edine"
    /\ Len(proc[1].stack) = 2
    /\ proc[1].stack[1] = [Directory |-> PathBC, pc |-> "wait"]
    /\ proc[1].stack[2].Directory = <<"/", "b">>
    /\ proc[1].stack[2].pc = "mkdir"


(***************************************************************************)
(* C17: at most two attempts to create the temp file.                       *)
(***************************************************************************)
\* the attempts of pr to create the temp file
TempFileAttempts(pr) ==
    {i \in 1..Len(pr.attempts) : pr.attempts[i].call = "TempFile"}

\* the error of the last call of lines 199-205, Nil before the first
LastAttemptErr(pr) ==
    IF pr.attempts = <<>> THEN Nil ELSE pr.attempts[Len(pr.attempts)].err

\* C17: a WriteFile call attempts the creation of its temp file at most
\* twice; a second attempt comes only after a first one that failed with
\* "does not exist" and a directory creation that succeeded; and when the
\* first attempt fails otherwise, or the directory creation or the second
\* attempt fails, no further call follows and the call has returned that very
\* error
AtMostTwoAttempts ==
    \A p \in Procs :
       LET pr == proc[p]
           n  == Len(pr.attempts)
       IN  pr.op = "WriteFile" =>
              /\ Cardinality(TempFileAttempts(pr)) <= 2
              /\ n <= 3
              /\ n >= 1 => pr.attempts[1].call = "TempFile"
              /\ n >= 2 =>
                    /\ IsNotExist(pr.attempts[1].err.kind)
                    /\ pr.attempts[2].call = "EnsureDirectoryIfNotExist"
              /\ n = 3 =>
                    /\ pr.attempts[2].err = Nil
                    /\ pr.attempts[3].call = "TempFile"
              /\ (pr.pc = "edine") = (n = 1 /\ IsNotExist(pr.attempts[1].err.kind))
              /\ (pr.pc = "wf_temp2") = (n = 2 /\ pr.attempts[2].err = Nil)
              /\ pr.pc = "wf_temp" => n = 0
              /\ n = 0 => pr.pc \in {"wf_temp", "done", "panicked"}
              /\ (\/ n = 1 /\ pr.attempts[1].err \notin {Nil, Err("ENOENT")}
                  \/ n = 2 /\ pr.attempts[2].err # Nil
                  \/ n = 3 /\ pr.attempts[3].err # Nil)
                 => /\ pr.pc = "done"
                    /\ pr.err = LastAttemptErr(pr)
                    /\ pr.f = NoFile /\ pr.tmpName = Empty

\* a second attempt was made, and one call each has returned the error of a
\* failed first attempt, directory creation and second attempt
AtMostTwoAttemptsWitness ==
    \E p \in Procs :
       /\ proc[p].op = "WriteFile"
       /\ Len(proc[p].attempts) = 3
       /\ proc[p].attempts[3].err = Err("EIO")
       /\ proc[p].pc = "done"
       /\ proc[p].err = Err("EIO")

(***************************************************************************)
(* C18: ownership is changed only when asked for, and only on a mismatch.   *)
(***************************************************************************)
\* the path pr is about to chown, Empty when its next step is no chown
ChownPath(pr) ==
    IF pr.pc = "ed_chown" THEN pr.c.Directory
    ELSE IF pr.pc = "wf_chown" THEN pr.tmpName
    ELSE IF pr.pc = "edine" /\ Top(pr).pc = "chown" THEN Top(pr).Directory
    ELSE Empty

\* the chown pr is about to issue was asked for by the flag of its kind, and
\* the owner reported by the stat before it differs from the configured one
\* (for the FileInfo of line 122, used at once in line 127, the owner the
\* directory has: with one caller it is the same)
ChownAskedFor(pr) ==
    /\ pr.pc = "wf_chown" =>
          /\ pr.c.EnsureFileOwnership
          /\ OwnerDiffers(pr.info, pr.c.FileUID, pr.c.FileGID)
    /\ pr.pc = "ed_chown" =>
          /\ pr.c.EnsureDirectoryOwnership
          /\ OwnerDiffers(pr.info, pr.c.DirectoryUID, pr.c.DirectoryGID)
    /\ (pr.pc = "edine" /\ Top(pr).pc = "chown") =>
          /\ pr.c.EnsureDirectoryOwnership
          /\ Exists(fs, Top(pr).Directory)
          /\ OwnerDiffers(fs[Top(pr).Directory], pr.c.DirectoryUID,
                          pr.c.DirectoryGID)

\* the entry at node is the same entry before and after the step, and its
\* owner is not the same
OwnerChanged(node) ==
    /\ Exists(fs, node) /\ Exists(fs', node)
    /\ fs[node].kind = fs'[node].kind
    /\ fs[node].id = fs'[node].id
    /\ OwnerDiffers(fs[node], fs'[node].uid, fs'[node].gid)

\* a step that changes the owner of an entry, or that a caller records as a
\* chown, is the chown some caller was about to issue for that path
OwnerChangesByChown ==
    /\ \A node \in DOMAIN fs :
          OwnerChanged(node) =>
             \E p \in Procs : Clean(ChownPath(proc[p])) = node
    /\ \A p \in Procs :
          \A e \in proc'[p].log \ proc[p].log :
             e[1] = "chown" => ChownPath(proc[p]) = e[2]

\* C18: a chown is issued only by a call whose configuration sets the flag
\* (EnsureDirectoryOwnership for a directory, EnsureFileOwnership for the
\* temp file) and whose stat reported a UID or GID other than the
\* configured one; no other step changes an owner; a call without the flags
\* never chowns
OwnershipOptIn ==
    /\ [](\A p \in Procs : ChownAskedFor(proc[p]))
    /\ [][OwnerChangesByChown]_vars
    /\ [](\A p \in Procs :
            \A e \in proc[p].log :
               e[1] = "chown" =>
                  \/ proc[p].c.EnsureDirectoryOwnership
                  \/ proc[p].c.EnsureFileOwnership /\ e[2] = proc[p].made)

\* a WriteFile that names an owner without asking for it has published its
\* file with the owner the file was created with, in a directory it created
\* and left to its owner too
OwnershipOptInWitness ==
    \E p \in Procs :
       /\ HasReturned(proc[p], "WriteFile")
       /\ proc[p].err = Nil
       /\ proc[p].c = [UnownedConfig EXCEPT !.Directory = PathBC]
       /\ <<"mkdir", PathBC>> \in proc[p].log
       /\ IsFileNode(fs, FinalPath(proc[p]))
       /\ fs[FinalPath(proc[p])].uid = Cred.uid
       /\ fs[FinalPath(proc[p])].uid # proc[p].c.FileUID
       /\ fs[PathBC].uid # proc[p].c.DirectoryUID

(***************************************************************************)
(* C19: the cleanup removes the call's own temp file only.                  *)
(***************************************************************************)
\* the step is the os.Remove of caller p's deferred function, line 188
CleanupStep(p) ==
    /\ proc[p].pc = "defer_remove"
    /\ proc'[p].pc # "defer_remove"

\* the call has published its file: its rename succeeded and it returned nil
Published(pr) == HasReturned(pr, "WriteFile") /\ pr.err = Nil /\ Renamed(pr)

\* what caller p's cleanup removes is the file p created, which no other
\* call holds as its temp file and no call has published
CleanupRemovesOwn ==
    \A p \in Procs :
       CleanupStep(p) =>
          \A node \in DOMAIN fs \ DOMAIN fs' :
             /\ fs[node].kind = "file"
             /\ fs[node].id = proc[p].id
             /\ \A q \in Procs \ {p} :
                   /\ ~(HoldsTemp(proc[q]) /\ Clean(proc[q].tmpName) = node)
                   /\ ~(Published(proc[q]) /\ FinalPath(proc[q]) = node)

\* C19: under any interleaving of concurrent WriteFile calls in one
\* directory, the cleanup of a call removes at most the temp file that call
\* created: never the temp file another call holds, never a file published
\* under a final name; and a call whose rename succeeded removes nothing
CleanupOwnTempOnly ==
    /\ [][CleanupRemovesOwn]_vars
    /\ [][\A p \in Procs : RenameStep(p) => DOMAIN fs' \subseteq DOMAIN fs \cup {FinalPath(proc[p])}]_vars
    /\ [](\A p \in Procs : Published(proc[p]) => \A e \in proc[p].log : e[1] # "remove")

\* a call has published its file under a final name, another call's cleanup
\* has removed what is at that name, and the published file is gone
CleanupRemovedPublished ==
    \E p, q \in Procs :
       /\ p # q
       /\ Published(proc[q])
       /\ proc[p].pc = "done"
       /\ <<"remove", FinalPath(proc[q])>> \in proc[p].log
       /\ ~Exists(fs, FinalPath(proc[q]))

(***************************************************************************)
(* C20: WriteFile leaves the mode of every directory alone.                 *)
(***************************************************************************)
\* the directories of the file system with their modes
DirectoryModes(fsys) ==
    [n \in {d \in DOMAIN fsys : fsys[d].kind = "dir"} |-> fsys[n].mode]

\* a step of a WriteFile call leaves every directory there is a directory
\* with the mode it has, and a directory it adds is one its
\* EnsureDirectoryIfNotExist has just made with os.Mkdir
WriteFileKeepsModes ==
    \A p \in Procs :
       proc'[p].op = "WriteFile" /\ proc'[p] # proc[p] =>
          /\ \A d \in DOMAIN DirectoryModes(fs) :
                /\ d \in DOMAIN DirectoryModes(fs')
                /\ DirectoryModes(fs')[d] = DirectoryModes(fs)[d]
          /\ \A d \in DOMAIN DirectoryModes(fs') \ DOMAIN DirectoryModes(fs) :
                /\ proc[p].pc = "edine" /\ Top(proc[p]).pc = "mkdir"
                /\ Top(proc[p]).Directory = d
                /\ <<"mkdir", d>> \in proc'[p].log

\* C20: WriteFile never changes the mode of a directory: no step of it
\* does, the only chmod it records is that of its temp file, and the
\* directories that were there when it was called have the mode they had
\* when it has returned, the configured directory mode or not
WriteFileLeavesDirectoryModes ==
    /\ [][WriteFileKeepsModes]_vars
    /\ [](\A p \in Procs :
            proc[p].op = "WriteFile" =>
               /\ \A e \in proc[p].log : e[1] = "chmod" => e[2] = proc[p].made
               /\ \A d \in DOMAIN DirectoryModes(InitFS) :
                     /\ d \in DOMAIN DirectoryModes(fs)
                     /\ DirectoryModes(fs)[d] = DirectoryModes(InitFS)[d])

\* a WriteFile into /a, whose mode 0700 is not the configured directory
\* mode, has chmod'ed its temp file, published it and returned nil, and /a
\* has mode 0700
WriteFileLeavesDirectoryModesWitness ==
    \E p \in Procs :
       /\ HasReturned(proc[p], "WriteFile")
       /\ proc[p].err = Nil
       /\ proc[p].c.Directory = PathA
       /\ <<"chmod", proc[p].made>> \in proc[p].log
       /\ Renamed(proc[p])
       /\ fs[PathA].mode = Oct(7, 0, 0)
       /\ fs[PathA].mode # getDirectoryMode(proc[p].c)
=============================================================================
